---- MODULE Spec2Model ----
(***************************************************************************)
(* Local-first consistency core of the POS system: checkout              *)
(* (TransactionService.createTransaction), inventory edits                *)
(* (ProductService), the Dexie/IndexedDB local store (PosDatabase) and    *)
(* the synchronisation engine (SyncService.performSync) with its          *)
(* triggers and the logout path of AuthProvider.                          *)
(*                                                                         *)
(* JavaScript runs the handlers on one thread; every `await` is a point   *)
(* where another handler may run.  Each action below is the code between  *)
(* two awaits of one handler.  A Dexie 'rw' transaction holds the         *)
(* IndexedDB lock on its tables from its first request to its commit or   *)
(* abort; single table requests outside a transaction wait for that lock. *)
(*                                                                         *)
(* JavaScript booleans stored in a record are written TRUE / FALSE.       *)
(* Local and cloud records share one id space, as the code compares and   *)
(* upserts them by id.  Record fields that no modelled decision reads     *)
(* (name, description, createdAt, timestamp) are left out of the records. *)
(***************************************************************************)
EXTENDS Integers, Sequences, FiniteSets, TLC

\* ---------------------------------------------------------------- bounds
MaxStock == 2         \* largest initial / edited stock level
MaxLines == 2         \* longest cart
MaxTx == 2            \* ids the transaction key generator may hand out
MaxClock == 1         \* the clock runs 0..MaxClock
NumCalls == 2         \* createTransaction calls that may be in flight
NumSyncs == 2         \* performSync calls that may be in flight
MaxSubs == 3          \* onOnlineStatusChange subscriptions made

ProductIds == {1, 2}
\* a cart line may also name an id that no store holds
LineProductIds == ProductIds \cup {3}
SellPrices == {2, 3}
CostPrices == {1}
LinePrices == {3}
LineQtys == {1, 2}
EditQtys == {-1} \cup (0..MaxStock)
CallIds == 1..NumCalls
SyncIds == 1..NumSyncs
Callbacks == {"a", "b"}

VARIABLES
  products,        \* LocalStore table products: id -> record
  transactions,    \* LocalStore table transactions: id -> record
  nextTxId,        \* key generator of transactions ('++id')
  dbLock,          \* holder of the IndexedDB rw lock, 0 when free
  now,             \* the wall clock read by new Date()
  calls,           \* createTransaction calls: position and locals
  callResult,      \* TransactionResult last returned per call slot
  deduct,          \* the deductQuantity call: position and locals
  remoteProducts,  \* RemoteStore table products of the owner
  remoteTxns,      \* RemoteStore table transactions of the owner
  online,          \* navigator.onLine
  user,            \* identity supabase.auth.getUser() returns
  syncInProgress,  \* SyncService.syncInProgress
  syncInterval,    \* SyncService.syncInterval is set
  lastSyncTime,    \* localStorage 'lastSyncTime', -1 when absent
  syncs,           \* performSync calls: position and locals
  syncResult,      \* SyncResult last returned, and the call it ended
  logoutPc,        \* AuthProvider.logout: position
  onlineStatusListeners,  \* SyncService.onlineStatusListeners
  unsubscribes,    \* the unsubscribe functions handed out, and whether
                   \* each has been called
  notified         \* the callbacks the last status change has invoked

localVars == <<products, transactions, nextTxId, dbLock>>
checkoutVars == <<calls, callResult>>
remoteVars == <<remoteProducts, remoteTxns>>
engineVars == <<syncInProgress, syncInterval, lastSyncTime, syncs, syncResult>>
listenerVars == <<onlineStatusListeners, unsubscribes, notified>>
vars == <<products, transactions, nextTxId, dbLock, now, calls, callResult,
          deduct, remoteProducts, remoteTxns, online, user, syncInProgress,
          syncInterval, lastSyncTime, syncs, syncResult, logoutPc,
          onlineStatusListeners, unsubscribes, notified>>

\* ------------------------------------------------------------- helpers
Put(f, k, v) == [x \in DOMAIN f \cup {k} |-> IF x = k THEN v ELSE f[x]]

Max(a, b) == IF a >= b THEN a ELSE b

Lines == [productId : LineProductIds, sellingPrice : LinePrices,
          costPrice : CostPrices, quantity : LineQtys]

Carts == UNION {[1..n -> Lines] : n \in 0..MaxLines}

\* Array.prototype.reduce((sum, item) => sum + f(item), 0), left to right
RECURSIVE ReduceSum(_, _, _)
ReduceSum(items, field, n) ==
  IF n = 0 THEN 0
  ELSE ReduceSum(items, field, n - 1) + items[n][field] * items[n].quantity

\* ------------------------------------------------------------ LocalStore
\* (variant: requests do not wait for a running transaction)
LockFree_NoWait == TRUE

\* no transaction holds the lock on products/transactions
LockFree == dbLock = 0

\* transactions.hook('creating'): every created record starts unsynced
TxCreatingHook(obj) == [obj EXCEPT !.synced = FALSE]

\* ----------------------------------------------------- createTransaction
\* the validation loop: the first line that fails throws; every line is
\* checked against the stored quantity, and its update is computed from it
\* (variant: the loop checks only that the product exists)
RECURSIVE ValidateLines_NoStockCheck(_, _, _)
ValidateLines_NoStockCheck(cart, prods, i) ==
  IF i > Len(cart) THEN [ok |-> TRUE, error |-> "", line |-> 0, updates |-> <<>>]
  ELSE LET line == cart[i] IN
    IF line.productId \notin DOMAIN prods
    THEN [ok |-> FALSE, error |-> "Product not found", line |-> i, updates |-> <<>>]
    ELSE LET rest == ValidateLines_NoStockCheck(cart, prods, i + 1) IN
      IF rest.ok
      THEN [rest EXCEPT !.updates =
              <<[id |-> line.productId,
                 newQuantity |-> prods[line.productId].quantity - line.quantity]>>
              \o rest.updates]
      ELSE rest

RECURSIVE ValidateLines(_, _, _)
ValidateLines(cart, prods, i) ==
  IF i > Len(cart) THEN [ok |-> TRUE, error |-> "", line |-> 0, updates |-> <<>>]
  ELSE LET line == cart[i] IN
    IF line.productId \notin DOMAIN prods
    THEN [ok |-> FALSE, error |-> "Product not found", line |-> i, updates |-> <<>>]
    ELSE IF prods[line.productId].quantity < line.quantity
    THEN [ok |-> FALSE, error |-> "Insufficient inventory", line |-> i,
          updates |-> <<>>]
    ELSE LET rest == ValidateLines(cart, prods, i + 1) IN
      IF rest.ok
      THEN [rest EXCEPT !.updates =
              <<[id |-> line.productId,
                 newQuantity |-> prods[line.productId].quantity - line.quantity]>>
              \o rest.updates]
      ELSE rest

\* the snapshot item made of a cart line
TransactionItem(line) ==
  [productId |-> line.productId, sellingPrice |-> line.sellingPrice,
   costPrice |-> line.costPrice, quantity |-> line.quantity]

\* (variant: totalCost summed over the selling prices)
BuildTransaction_CostFromSelling(cart) ==
  LET items == [i \in 1..Len(cart) |-> TransactionItem(cart[i])]
      total == ReduceSum(items, "sellingPrice", Len(items))
      totalCost == ReduceSum(items, "sellingPrice", Len(items))
  IN [items |-> items, total |-> total, totalCost |-> totalCost,
      profit |-> total - totalCost, synced |-> FALSE]

\* Steps 2 and 3: totals from the items, record built unsynced
BuildTransaction(cart) ==
  LET items == [i \in 1..Len(cart) |-> TransactionItem(cart[i])]
      total == ReduceSum(items, "sellingPrice", Len(items))
      totalCost == ReduceSum(items, "costPrice", Len(items))
  IN [items |-> items, total |-> total, totalCost |-> totalCost,
      profit |-> total - totalCost, synced |-> FALSE]

\* Step 5: db.products.update(id, {quantity, updatedAt}) in list order
RECURSIVE ApplyUpdates(_, _, _, _)
ApplyUpdates(prods, updates, i, t) ==
  IF i > Len(updates) THEN prods
  ELSE ApplyUpdates(
         [prods EXCEPT ![updates[i].id] =
            [@ EXCEPT !.quantity = updates[i].newQuantity, !.updatedAt = t]],
         updates, i + 1, t)

IdleCall == [pc |-> "idle", cart |-> <<>>, updates |-> <<>>]

\* a failed TransactionResult; line is the cart line the message is about
Failure(msg, line) == [success |-> FALSE, error |-> msg, txId |-> 0, line |-> line]

\* the call: an empty cart is refused at once, otherwise db.transaction is
\* requested and the call waits for the lock
CreateTransaction(c, cart) ==
  /\ calls[c].pc = "idle"
  /\ IF Len(cart) = 0
     THEN /\ callResult' = [callResult EXCEPT ![c] =
                 Failure("Cannot create transaction with empty cart", 0)]
          /\ UNCHANGED calls
     ELSE /\ calls' = [calls EXCEPT ![c] = [IdleCall EXCEPT !.pc = "waiting", !.cart = cart]]
          /\ UNCHANGED callResult
  /\ UNCHANGED <<localVars, now, deduct, listenerVars, remoteVars, online, user, engineVars, logoutPc>>

\* the transaction gets the lock and runs Step 1; a throw aborts it and the
\* catch block returns the failure
CreateTransactionValidate(c) ==
  /\ calls[c].pc = "waiting"
  /\ LockFree
  /\ LET v == ValidateLines(calls[c].cart, products, 1) IN
       IF v.ok
       THEN /\ nextTxId <= MaxTx
            /\ dbLock' = c
            /\ calls' = [calls EXCEPT ![c].pc = "validated", ![c].updates = v.updates]
            /\ UNCHANGED callResult
       ELSE /\ dbLock' = 0
            /\ calls' = [calls EXCEPT ![c] = IdleCall]
            /\ callResult' = [callResult EXCEPT ![c] = Failure(v.error, v.line)]
  /\ UNCHANGED <<products, transactions, nextTxId, now, deduct, listenerVars, remoteVars,
                 online, user, engineVars, logoutPc>>

\* Steps 2 to 5 and the commit: the record is added under a fresh key, the
\* quantities are written, the lock is released, the result is returned
CreateTransactionCommit(c) ==
  /\ calls[c].pc = "validated"
  /\ transactions' = Put(transactions, nextTxId,
                         TxCreatingHook(BuildTransaction(calls[c].cart)))
  /\ nextTxId' = nextTxId + 1
  /\ products' = ApplyUpdates(products, calls[c].updates, 1, now)
  /\ dbLock' = 0
  /\ calls' = [calls EXCEPT ![c] = IdleCall]
  /\ callResult' = [callResult EXCEPT ![c] =
         [success |-> TRUE, error |-> "", txId |-> nextTxId, line |-> 0]]
  /\ UNCHANGED <<now, deduct, listenerVars, remoteVars, online, user, engineVars, logoutPc>>

\* receiptService.generateReceipt throws inside the transaction scope: the
\* rejection aborts the Dexie transaction (the added record, the quantity
\* writes and the key generator are rolled back) and the catch block returns
\* the failure
CreateTransactionReceiptThrows(c) ==
  /\ calls[c].pc = "validated"
  /\ dbLock' = 0
  /\ calls' = [calls EXCEPT ![c] = IdleCall]
  /\ callResult' = [callResult EXCEPT ![c] = Failure("Receipt generation failed", 0)]
  /\ UNCHANGED <<products, transactions, nextTxId, now, deduct, listenerVars, remoteVars,
                 online, user, engineVars, logoutPc>>

\* --------------------------------------------------------- ProductService
\* db.products.update(id, changes): changes the stored record, none if absent
\* (products.hook('updating') alters only its own argument, which Dexie
\* does not read back, so it contributes nothing)
TableUpdate(prods, id, changes) ==
  IF id \in DOMAIN prods
  THEN [prods EXCEPT ![id] =
          [f \in DOMAIN @ |-> IF f \in DOMAIN changes THEN changes[f] ELSE @[f]]]
  ELSE prods

\* updateProduct(id, updates): the updates and updatedAt are written as given
UpdateProduct(id, updates) ==
  /\ LockFree
  /\ products' = TableUpdate(products, id,
                   [f \in DOMAIN updates \cup {"updatedAt"} |->
                      IF f = "updatedAt" THEN now ELSE updates[f]])
  /\ UNCHANGED <<transactions, nextTxId, dbLock, now, checkoutVars, deduct, listenerVars,
                 remoteVars, online, user, engineVars, logoutPc>>

\* deleteProduct(id): soft delete
DeleteProduct(id) ==
  /\ LockFree
  /\ products' = TableUpdate(products, id,
                   [f \in {"isActive", "updatedAt"} |->
                      IF f = "updatedAt" THEN now ELSE FALSE])
  /\ UNCHANGED <<transactions, nextTxId, dbLock, now, checkoutVars, deduct, listenerVars,
                 remoteVars, online, user, engineVars, logoutPc>>

\* updateQuantity(id, newQuantity): refuses a negative quantity
UpdateQuantity(id, newQuantity) ==
  /\ newQuantity >= 0
  /\ UpdateProduct(id, [f \in {"quantity"} |-> newQuantity])

IdleDeduct == [pc |-> "idle", id |-> 0, newQuantity |-> 0]

\* deductQuantity(id, n) up to its read: n must be positive, the product
\* present and the difference not negative
DeductQuantityRead(id, quantityToDeduct) ==
  /\ deduct.pc = "idle"
  /\ LockFree
  /\ quantityToDeduct > 0
  /\ id \in DOMAIN products
  /\ products[id].quantity - quantityToDeduct >= 0
  /\ deduct' = [pc |-> "write", id |-> id,
                newQuantity |-> products[id].quantity - quantityToDeduct]
  /\ UNCHANGED <<localVars, now, checkoutVars, remoteVars, online, user,
                 engineVars, logoutPc, listenerVars>>

\* deductQuantity: the updateQuantity(id, newQuantity) that ends it
DeductQuantityWrite ==
  /\ deduct.pc = "write"
  /\ LockFree
  /\ deduct.newQuantity >= 0
  /\ products' = TableUpdate(products, deduct.id,
                   [f \in {"quantity", "updatedAt"} |->
                      IF f = "updatedAt" THEN now ELSE deduct.newQuantity])
  /\ deduct' = IdleDeduct
  /\ UNCHANGED <<transactions, nextTxId, dbLock, now, checkoutVars,
                 remoteVars, online, user, engineVars, logoutPc, listenerVars>>

\* ------------------------------------------------------------------ clock
Tick ==
  /\ now < MaxClock
  /\ now' = now + 1
  /\ UNCHANGED <<localVars, checkoutVars, deduct, listenerVars, remoteVars, online, user,
                 engineVars, logoutPc>>

\* ------------------------------------------------- RemoteStore boundary
\* pushProductToCloud: the record sent to the products table
CloudProduct(product) ==
  [quantity |-> product.quantity, selling_price |-> product.sellingPrice,
   cost_price |-> product.costPrice, is_active |-> product.isActive,
   updated_at |-> product.updatedAt]

\* pullProductFromCloud / pullCompleteDataset: the record made of a row
LocalProduct(cp) ==
  [quantity |-> cp.quantity, sellingPrice |-> cp.selling_price,
   costPrice |-> cp.cost_price, isActive |-> cp.is_active,
   updatedAt |-> cp.updated_at]

\* pushTransactionsToCloud: the row sent for a transaction
CloudTransaction(transaction) ==
  [items |-> transaction.items, total |-> transaction.total,
   total_cost |-> transaction.totalCost, profit |-> transaction.profit]

\* pullCompleteDataset: the record made of a transaction row
LocalTransaction(ct) ==
  [items |-> ct.items, total |-> ct.total, totalCost |-> ct.total_cost,
   profit |-> ct.profit, synced |-> TRUE]

\* ---------------------------------------------------- LocalStore, cont.
\* products.hook('creating'): a created record is stamped with the clock
\* and is active unless isActive is false
ProductCreatingHook(obj, t) ==
  [obj EXCEPT !.updatedAt = t,
              !.isActive = (@ # FALSE)]

\* Table.put / bulkPut of one record: an absent key is created (the creating
\* hook runs), a present one is replaced
PutProduct(prods, id, rec, t) ==
  IF id \in DOMAIN prods THEN [prods EXCEPT ![id] = rec]
  ELSE Put(prods, id, ProductCreatingHook(rec, t))

\* (variant: the creating hook runs on a replaced record, not on a created one)
PutTransaction_HookOnReplace(txns, id, rec) ==
  IF id \in DOMAIN txns THEN [txns EXCEPT ![id] = TxCreatingHook(rec)]
  ELSE Put(txns, id, rec)

PutTransaction(txns, id, rec) ==
  IF id \in DOMAIN txns THEN [txns EXCEPT ![id] = rec]
  ELSE Put(txns, id, TxCreatingHook(rec))

\* bulkPutProducts / bulkPutTransactions
BulkPutProducts(prods, recs, t) ==
  [id \in DOMAIN prods \cup DOMAIN recs |->
     IF id \in DOMAIN recs THEN PutProduct(prods, id, recs[id], t)[id]
     ELSE prods[id]]

BulkPutTransactions(txns, recs) ==
  [id \in DOMAIN txns \cup DOMAIN recs |->
     IF id \in DOMAIN recs THEN PutTransaction(txns, id, recs[id])[id]
     ELSE txns[id]]

\* the keys an index holds for a stored value: a boolean is not a valid
\* IndexedDB key, so a record whose indexed field is one has no index entry
IndexKeys(v) == IF v \in BOOLEAN THEN {} ELSE {v}

\* getUnsyncedTransactions: where('synced').equals(0)
GetUnsyncedTransactions(txns) ==
  {id \in DOMAIN txns : 0 \in IndexKeys(txns[id].synced)}

\* markTransactionsSynced: where('id').anyOf(ids).modify({synced: true})
MarkTransactionsSynced(txns, ids) ==
  [id \in DOMAIN txns |->
     IF id \in ids THEN [txns[id] EXCEPT !.synced = TRUE] ELSE txns[id]]

\* getAllProducts / getProductsCount: the active products
ActiveProducts(prods) ==
  [id \in {x \in DOMAIN prods : prods[x].isActive = TRUE} |-> prods[id]]

SetMax(S) == CHOOSE x \in S : \A y \in S : y <= x
SetMin(S) == CHOOSE x \in S : \A y \in S : x <= y

\* ------------------------------------------------------------ SyncService
IdleSync ==
  [pc |-> "idle", fetched |-> << >>, localProducts |-> << >>,
   cloudProducts |-> << >>, todo |-> {}, syncedTransactions |-> 0,
   syncedProducts |-> 0, pulledTransactions |-> 0, pulledProducts |-> 0]

SyncFailure(msg) ==
  [call |-> 0, success |-> FALSE, error |-> msg, syncedTransactions |-> 0,
   syncedProducts |-> 0, pulledTransactions |-> 0, pulledProducts |-> 0]

\* a new performSync call takes the first slot that holds no running call
FreeSlot(p) ==
  /\ syncs[p].pc = "idle"
  /\ \A q \in SyncIds : syncs[q].pc = "idle" => p <= q

\* (variant: an accepted call starts at the product count)
PerformSync_StartAtCount(p, isOnline) ==
  /\ FreeSlot(p)
  /\ IF ~isOnline
     THEN /\ syncResult' = [SyncFailure("Device is offline") EXCEPT !.call = p]
          /\ UNCHANGED <<syncs, syncInProgress>>
     ELSE IF syncInProgress
     THEN /\ syncResult' = [SyncFailure("Sync already in progress") EXCEPT !.call = p]
          /\ UNCHANGED <<syncs, syncInProgress>>
     ELSE /\ syncInProgress' = TRUE
          /\ syncs' = [syncs EXCEPT ![p].pc = "count"]
          /\ UNCHANGED syncResult

\* performSync up to its first await: offline and in-progress guards, then
\* the flag is set and getUser is awaited
PerformSync(p, isOnline) ==
  /\ FreeSlot(p)
  /\ IF ~isOnline
     THEN /\ syncResult' = [SyncFailure("Device is offline") EXCEPT !.call = p]
          /\ UNCHANGED <<syncs, syncInProgress>>
     ELSE IF syncInProgress
     THEN /\ syncResult' = [SyncFailure("Sync already in progress") EXCEPT !.call = p]
          /\ UNCHANGED <<syncs, syncInProgress>>
     ELSE /\ syncInProgress' = TRUE
          /\ syncs' = [syncs EXCEPT ![p].pc = "auth"]
          /\ UNCHANGED syncResult

\* (variant: the flag is left as it is)
Return_KeepFlag(p, result) ==
  /\ syncs' = [syncs EXCEPT ![p] = IdleSync]
  /\ syncResult' = [result EXCEPT !.call = p]
  /\ syncInProgress' = syncInProgress

\* the return of a performSync call: the finally block clears the flag
Return(p, result) ==
  /\ syncs' = [syncs EXCEPT ![p] = IdleSync]
  /\ syncResult' = [result EXCEPT !.call = p]
  /\ syncInProgress' = FALSE

\* notifyOnlineStatusChange: forEach over the registered listeners
NotifyOnlineStatusChange ==
  /\ notified' = onlineStatusListeners
  /\ UNCHANGED <<onlineStatusListeners, unsubscribes>>

\* Array.prototype.indexOf, 0 when the value is not in the array
IndexOf(arr, v) ==
  IF \E i \in DOMAIN arr : arr[i] = v
  THEN CHOOSE i \in DOMAIN arr : arr[i] = v /\ \A j \in 1..(i - 1) : arr[j] # v
  ELSE 0

\* Array.prototype.splice(index, 1)
Splice(arr, index) ==
  [i \in 1..(Len(arr) - 1) |-> IF i < index THEN arr[i] ELSE arr[i + 1]]

\* onOnlineStatusChange(callback): the callback is pushed and the
\* unsubscribe function that closes over it is returned
OnOnlineStatusChange(callback) ==
  /\ Len(unsubscribes) < MaxSubs
  /\ onlineStatusListeners' = Append(onlineStatusListeners, callback)
  /\ unsubscribes' = Append(unsubscribes, [callback |-> callback, called |-> FALSE])
  /\ UNCHANGED <<localVars, now, checkoutVars, deduct, remoteVars, online, user,
                 engineVars, logoutPc, notified>>

\* the unsubscribe function h: the first entry equal to its callback is
\* removed, if there is one
Unsubscribe(h) ==
  /\ h \in DOMAIN unsubscribes
  /\ LET index == IndexOf(onlineStatusListeners, unsubscribes[h].callback) IN
       onlineStatusListeners' =
         IF index > 0 THEN Splice(onlineStatusListeners, index)
         ELSE onlineStatusListeners
  /\ unsubscribes' = [unsubscribes EXCEPT ![h].called = TRUE]
  /\ UNCHANGED <<localVars, now, checkoutVars, deduct, remoteVars, online, user,
                 engineVars, logoutPc, notified>>

\* forcSync: the manual trigger
ForcSync(p) ==
  /\ user = "owner"
  /\ PerformSync(p, online)
  /\ UNCHANGED <<localVars, now, checkoutVars, deduct, listenerVars, remoteVars, online,
                 user, syncInterval, lastSyncTime, logoutPc>>

\* the setInterval callback
TimerTick(p) ==
  /\ syncInterval
  /\ online
  /\ PerformSync(p, online)
  /\ UNCHANGED <<localVars, now, checkoutVars, deduct, listenerVars, remoteVars, online,
                 user, syncInterval, lastSyncTime, logoutPc>>

\* window 'online' listener
OnlineEvent(p) ==
  /\ ~online
  /\ online' = TRUE
  /\ NotifyOnlineStatusChange
  /\ PerformSync(p, TRUE)
  /\ UNCHANGED <<localVars, now, checkoutVars, deduct, remoteVars,
                 user, syncInterval, lastSyncTime, logoutPc>>

\* window 'offline' listener
OfflineEvent ==
  /\ online
  /\ online' = FALSE
  /\ NotifyOnlineStatusChange
  /\ UNCHANGED <<localVars, now, checkoutVars, deduct, remoteVars,
                 user, engineVars, logoutPc>>

\* startPeriodicSync: the timer is (re)armed, a sync is started if online
StartPeriodicSync(p) ==
  /\ syncInterval' = TRUE
  /\ IF online THEN PerformSync(p, online)
     ELSE FreeSlot(p) /\ UNCHANGED <<syncs, syncInProgress, syncResult>>

\* (variant: the call goes on whether or not getUser gave a user)
SyncAuth_NoUserCheck(p) ==
  /\ syncs[p].pc = "auth"
  /\ syncs' = [syncs EXCEPT ![p].pc = "push"]
  /\ UNCHANGED <<syncResult, syncInProgress>>
  /\ UNCHANGED <<localVars, now, checkoutVars, deduct, listenerVars, remoteVars, online,
                 user, syncInterval, lastSyncTime, logoutPc>>

\* performSync after getUser
SyncAuth(p) ==
  /\ syncs[p].pc = "auth"
  /\ IF user = "none"
     THEN Return(p, SyncFailure("User not authenticated"))
     ELSE /\ syncs' = [syncs EXCEPT ![p].pc = "push"]
          /\ UNCHANGED <<syncResult, syncInProgress>>
  /\ UNCHANGED <<localVars, now, checkoutVars, deduct, listenerVars, remoteVars, online,
                 user, syncInterval, lastSyncTime, logoutPc>>

\* Step 1: the unsynced transactions are read; if there are any they are
\* upserted by id and marked synced
SyncPush(p) ==
  /\ syncs[p].pc = "push"
  /\ LockFree
  /\ LET unsynced == GetUnsyncedTransactions(transactions) IN
       IF unsynced = {}
       THEN /\ syncs' = [syncs EXCEPT ![p].pc = "count"]
            /\ UNCHANGED <<transactions, remoteTxns>>
       ELSE /\ remoteTxns' =
                 [id \in DOMAIN remoteTxns \cup unsynced |->
                    IF id \in unsynced THEN CloudTransaction(transactions[id])
                    ELSE remoteTxns[id]]
            /\ transactions' = MarkTransactionsSynced(transactions, unsynced)
            /\ syncs' = [syncs EXCEPT ![p].pc = "count",
                                      ![p].syncedTransactions = Cardinality(unsynced)]
  /\ UNCHANGED <<products, nextTxId, dbLock, now, checkoutVars, deduct, listenerVars,
                 remoteProducts, online, user, syncInProgress, syncInterval,
                 lastSyncTime, syncResult, logoutPc>>

\* Step 2: getProductsCount decides whether the complete dataset is pulled
SyncCount(p) ==
  /\ syncs[p].pc = "count"
  /\ LockFree
  /\ syncs' = [syncs EXCEPT ![p].pc =
                 IF DOMAIN ActiveProducts(products) = {} THEN "pullProducts"
                 ELSE "reconRead"]
  /\ UNCHANGED <<localVars, now, checkoutVars, deduct, listenerVars, remoteVars, online,
                 user, syncInProgress, syncInterval, lastSyncTime, syncResult,
                 logoutPc>>

\* pullCompleteDataset: select of the owner's active products
SyncPullProducts(p) ==
  /\ syncs[p].pc = "pullProducts"
  /\ LET rows == {id \in DOMAIN remoteProducts : remoteProducts[id].is_active = TRUE} IN
       syncs' = [syncs EXCEPT
                   ![p].pc = IF rows = {} THEN "pullTxns" ELSE "putProducts",
                   ![p].fetched = [id \in rows |-> LocalProduct(remoteProducts[id])]]
  /\ UNCHANGED <<localVars, now, checkoutVars, deduct, listenerVars, remoteVars, online,
                 user, syncInProgress, syncInterval, lastSyncTime, syncResult,
                 logoutPc>>

\* pullCompleteDataset: bulkPutProducts of the fetched products
SyncPutProducts(p) ==
  /\ syncs[p].pc = "putProducts"
  /\ LockFree
  /\ products' = BulkPutProducts(products, syncs[p].fetched, now)
  /\ syncs' = [syncs EXCEPT ![p].pc = "pullTxns", ![p].fetched = << >>,
                            ![p].pulledProducts = Cardinality(DOMAIN syncs[p].fetched)]
  /\ UNCHANGED <<transactions, nextTxId, dbLock, now, checkoutVars, deduct, listenerVars,
                 remoteVars, online, user, syncInProgress, syncInterval,
                 lastSyncTime, syncResult, logoutPc>>

\* pullCompleteDataset: select of the owner's transactions
SyncPullTxns(p) ==
  /\ syncs[p].pc = "pullTxns"
  /\ syncs' = [syncs EXCEPT
                 ![p].pc = IF DOMAIN remoteTxns = {} THEN "reconRead" ELSE "putTxns",
                 ![p].fetched = [id \in DOMAIN remoteTxns |-> LocalTransaction(remoteTxns[id])]]
  /\ UNCHANGED <<localVars, now, checkoutVars, deduct, listenerVars, remoteVars, online,
                 user, syncInProgress, syncInterval, lastSyncTime, syncResult,
                 logoutPc>>

\* pullCompleteDataset: bulkPutTransactions of the fetched transactions
\* (an explicit key moves the key generator past it)
SyncPutTxns(p) ==
  /\ syncs[p].pc = "putTxns"
  /\ LockFree
  /\ transactions' = BulkPutTransactions(transactions, syncs[p].fetched)
  /\ nextTxId' = Max(nextTxId, SetMax(DOMAIN syncs[p].fetched) + 1)
  /\ syncs' = [syncs EXCEPT ![p].pc = "reconRead", ![p].fetched = << >>,
                            ![p].pulledTransactions = Cardinality(DOMAIN syncs[p].fetched)]
  /\ UNCHANGED <<products, dbLock, now, checkoutVars, deduct, listenerVars,
                 remoteVars, online, user, syncInProgress, syncInterval,
                 lastSyncTime, syncResult, logoutPc>>

\* syncProducts: getAllProducts
SyncReconRead(p) ==
  /\ syncs[p].pc = "reconRead"
  /\ LockFree
  /\ syncs' = [syncs EXCEPT ![p].pc = "reconSelect",
                            ![p].localProducts = ActiveProducts(products)]
  /\ UNCHANGED <<localVars, now, checkoutVars, deduct, listenerVars, remoteVars, online,
                 user, syncInProgress, syncInterval, lastSyncTime, syncResult,
                 logoutPc>>

\* syncProducts: select of all the owner's products
SyncReconSelect(p) ==
  /\ syncs[p].pc = "reconSelect"
  /\ syncs' = [syncs EXCEPT ![p].pc = "reconLocal",
                            ![p].cloudProducts = remoteProducts,
                            ![p].todo = DOMAIN syncs[p].localProducts]
  /\ UNCHANGED <<localVars, now, checkoutVars, deduct, listenerVars, remoteVars, online,
                 user, syncInProgress, syncInterval, lastSyncTime, syncResult,
                 logoutPc>>

\* syncProducts, first loop: one local product of the snapshot is compared
\* with its cloud row and pushed, pulled or left
SyncReconLocal(p) ==
  /\ syncs[p].pc = "reconLocal"
  /\ LET sp == syncs[p] IN
     IF sp.todo = {}
     THEN /\ syncs' = [syncs EXCEPT ![p].pc = "reconCloud",
                         ![p].todo = DOMAIN sp.cloudProducts \ DOMAIN sp.localProducts]
          /\ UNCHANGED <<products, remoteProducts>>
     ELSE LET id == SetMin(sp.todo)
              lp == sp.localProducts[id]
              pushIt == \/ id \notin DOMAIN sp.cloudProducts
                        \/ lp.updatedAt > sp.cloudProducts[id].updated_at
              pullIt == /\ id \in DOMAIN sp.cloudProducts
                        /\ sp.cloudProducts[id].updated_at > lp.updatedAt
          IN /\ IF pushIt
                THEN /\ remoteProducts' = Put(remoteProducts, id, CloudProduct(lp))
                     /\ UNCHANGED products
                ELSE IF pullIt
                THEN /\ LockFree
                     /\ products' = PutProduct(products, id,
                                       LocalProduct(sp.cloudProducts[id]), now)
                     /\ UNCHANGED remoteProducts
                ELSE UNCHANGED <<products, remoteProducts>>
             /\ syncs' = [syncs EXCEPT ![p].todo = sp.todo \ {id},
                            ![p].syncedProducts =
                               IF pushIt \/ pullIt THEN @ + 1 ELSE @]
  /\ UNCHANGED <<transactions, nextTxId, dbLock, now, checkoutVars, deduct, listenerVars,
                 remoteTxns, online, user, syncInProgress, syncInterval,
                 lastSyncTime, syncResult, logoutPc>>

\* syncProducts, second loop: a cloud row without a product in the snapshot
\* is pulled; after the last one performSync records the time and returns
SyncReconCloud(p) ==
  /\ syncs[p].pc = "reconCloud"
  /\ LET sp == syncs[p] IN
     IF sp.todo = {}
     THEN /\ lastSyncTime' = now
          /\ Return(p, [call |-> p, success |-> TRUE, error |-> "",
                        syncedTransactions |-> sp.syncedTransactions,
                        syncedProducts |-> sp.syncedProducts,
                        pulledTransactions |-> sp.pulledTransactions,
                        pulledProducts |-> sp.pulledProducts])
          /\ UNCHANGED products
     ELSE LET id == SetMin(sp.todo) IN
          /\ LockFree
          /\ products' = PutProduct(products, id,
                            LocalProduct(sp.cloudProducts[id]), now)
          /\ syncs' = [syncs EXCEPT ![p].todo = sp.todo \ {id},
                                    ![p].syncedProducts = @ + 1]
          /\ UNCHANGED <<syncResult, syncInProgress, lastSyncTime>>
  /\ UNCHANGED <<transactions, nextTxId, dbLock, now, checkoutVars, deduct, listenerVars,
                 remoteVars, online, user, syncInterval, logoutPc>>

\* the awaited call of a running performSync rejects (remote error, network
\* drop, local store error): the catch block returns the failure
SyncFail(p) ==
  /\ syncs[p].pc # "idle"
  /\ Return(p, SyncFailure("Sync failed"))
  /\ UNCHANGED <<localVars, now, checkoutVars, deduct, listenerVars, remoteVars, online,
                 user, syncInterval, lastSyncTime, logoutPc>>

\* pushProductToCloud run by another device of the owner: its record of a
\* product, stamped with the time of its edit, is upserted
OtherDevicePush(id, quantity) ==
  /\ id \in DOMAIN remoteProducts
  /\ remoteProducts' = [remoteProducts EXCEPT ![id] =
                          [@ EXCEPT !.quantity = quantity, !.updated_at = now]]
  /\ UNCHANGED <<localVars, now, checkoutVars, deduct, listenerVars, remoteTxns,
                 online, user, engineVars, logoutPc>>

\* ----------------------------------------------------------- AuthProvider
\* a session with a user is reported (getSession / onAuthStateChange)
SessionEvent(p) ==
  /\ user = "owner"
  /\ StartPeriodicSync(p)
  /\ UNCHANGED <<localVars, now, checkoutVars, deduct, listenerVars, remoteVars, online,
                 user, lastSyncTime, logoutPc>>

\* login, and the auth state change that follows it
Login(p) ==
  /\ user = "none"
  /\ logoutPc = "idle"
  /\ user' = "owner"
  /\ StartPeriodicSync(p)
  /\ UNCHANGED <<localVars, now, checkoutVars, deduct, listenerVars, remoteVars, online,
                 lastSyncTime, logoutPc>>

\* logout up to its first await: stopPeriodicSync and clearSyncData
LogoutStart ==
  /\ user = "owner"
  /\ logoutPc = "idle"
  /\ syncInterval' = FALSE
  /\ lastSyncTime' = -1
  /\ syncInProgress' = FALSE
  /\ logoutPc' = "clearing"
  /\ UNCHANGED <<localVars, now, checkoutVars, deduct, listenerVars, remoteVars, online,
                 user, syncs, syncResult>>

\* logout: clearAllData, then localStorage.clear()
LogoutClear ==
  /\ logoutPc = "clearing"
  /\ LockFree
  /\ products' = << >>
  /\ transactions' = << >>
  /\ lastSyncTime' = -1
  /\ logoutPc' = "signingOut"
  /\ UNCHANGED <<nextTxId, dbLock, now, checkoutVars, deduct, listenerVars, remoteVars,
                 online, user, syncInProgress, syncInterval, syncs, syncResult>>

\* logout: signOut, and the auth state change without a session that
\* follows it (stopPeriodicSync and clearSyncData once more)
LogoutSignOut ==
  /\ logoutPc = "signingOut"
  /\ user' = "none"
  /\ syncInterval' = FALSE
  /\ lastSyncTime' = -1
  /\ syncInProgress' = FALSE
  /\ logoutPc' = "idle"
  /\ UNCHANGED <<localVars, now, checkoutVars, deduct, listenerVars, remoteVars, online,
                 syncs, syncResult>>

\* ------------------------------------------------------------------- init
\* a sale another device of the owner holds under the id 1 of its own key
\* generator
OtherSale ==
  [items |-> <<[productId |-> 1, sellingPrice |-> 2, costPrice |-> 1, quantity |-> 1]>>,
   total |-> 2, total_cost |-> 1, profit |-> 1]

NoResult == [success |-> FALSE, error |-> "", txId |-> 0, line |-> 0]

\* the application has started with a restored session; nothing has been
\* sold or synchronised yet
InitApp ==
  /\ transactions = << >>
  /\ nextTxId = 1
  /\ dbLock = 0
  /\ now = 0
  /\ calls = [c \in CallIds |-> IdleCall]
  /\ callResult = [c \in CallIds |-> NoResult]
  /\ deduct = IdleDeduct
  /\ user = "owner"
  /\ syncInProgress = FALSE
  /\ syncInterval = FALSE
  /\ lastSyncTime = -1
  /\ syncs = [p \in SyncIds |-> IdleSync]
  /\ syncResult = SyncFailure("")
  /\ logoutPc = "idle"
  /\ onlineStatusListeners = << >>
  /\ unsubscribes = << >>
  /\ notified = << >>

StockedProduct(q) ==
  [quantity |-> q, sellingPrice |-> 2, costPrice |-> 1, isActive |-> TRUE,
   updatedAt |-> 0]

\* ------------------------------------------- checkout of one cashier
InitCheckout ==
  /\ InitApp
  /\ \E stock \in [ProductIds -> 0..MaxStock] :
        products = [id \in ProductIds |-> StockedProduct(stock[id])]
  /\ remoteProducts = << >>
  /\ remoteTxns = << >>
  /\ online = TRUE

NextCheckout ==
  \/ \E cart \in Carts : CreateTransaction(1, cart)
  \/ CreateTransactionValidate(1)
  \/ CreateTransactionCommit(1)
  \/ \E id \in ProductIds, sp \in SellPrices :
        UpdateProduct(id, [f \in {"sellingPrice"} |-> sp])

SpecCheckout == InitCheckout /\ [][NextCheckout]_vars

\* ------------------------------------- checkouts started concurrently
\* every call asks for some quantity of the product 1
OneLineCarts ==
  {<<[productId |-> 1, sellingPrice |-> sp, costPrice |-> 1, quantity |-> q]>> :
     sp \in LinePrices, q \in LineQtys}

InitConcurrent ==
  /\ InitApp
  /\ products = [id \in ProductIds |-> StockedProduct(MaxStock)]
  /\ remoteProducts = << >>
  /\ remoteTxns = << >>
  /\ online = TRUE

NextConcurrent ==
  \/ \E c \in CallIds, cart \in OneLineCarts : CreateTransaction(c, cart)
  \/ \E c \in CallIds : CreateTransactionValidate(c)
  \/ \E c \in CallIds : CreateTransactionCommit(c)

SpecConcurrent == InitConcurrent /\ [][NextConcurrent]_vars

\* ---------------------------- checkouts whose receipt generation may fail
NextReceipt ==
  \/ \E c \in CallIds, cart \in OneLineCarts : CreateTransaction(c, cart)
  \/ \E c \in CallIds : CreateTransactionValidate(c)
  \/ \E c \in CallIds : CreateTransactionCommit(c)
  \/ \E c \in CallIds : CreateTransactionReceiptThrows(c)

SpecReceipt == InitConcurrent /\ [][NextReceipt]_vars

\* ------------------------------- checkouts of carts with any quantities
\* the quantity of a cart line is whatever the caller passes
AnyQtys == {-1, 0} \cup LineQtys

AnyQtyCarts ==
  {<<[productId |-> 1, sellingPrice |-> sp, costPrice |-> 1, quantity |-> q]>> :
     sp \in LinePrices, q \in AnyQtys}

NextAnyQty ==
  \/ \E c \in CallIds, cart \in AnyQtyCarts : CreateTransaction(c, cart)
  \/ \E c \in CallIds : CreateTransactionValidate(c)
  \/ \E c \in CallIds : CreateTransactionCommit(c)

SpecAnyQty == InitConcurrent /\ [][NextAnyQty]_vars

DeductQtys == 0..MaxStock

InitInventory ==
  /\ InitApp
  /\ \E q \in 0..MaxStock : products = [id \in {1} |-> StockedProduct(q)]
  /\ remoteProducts = << >>
  /\ remoteTxns = << >>
  /\ online = TRUE

NextInventory ==
  \/ \E cart \in OneLineCarts : CreateTransaction(1, cart)
  \/ CreateTransactionValidate(1)
  \/ CreateTransactionCommit(1)
  \/ \E q \in EditQtys : UpdateProduct(1, [f \in {"quantity"} |-> q])
  \/ \E q \in EditQtys : UpdateQuantity(1, q)
  \/ \E n \in DeductQtys : DeductQuantityRead(1, n)
  \/ DeductQuantityWrite
  \/ Tick

SpecInventory == InitInventory /\ [][NextInventory]_vars

\* ------------------------------------ sales, edits and one sync at a time
\* the shop has one stocked product; the owner's cloud tables hold no
\* product and either no sale or the sale of another device
InitSales ==
  /\ InitApp
  /\ products = [id \in {1} |-> StockedProduct(MaxStock)]
  /\ remoteProducts = << >>
  /\ remoteTxns \in {<< >>, [id \in {1} |-> OtherSale]}
  /\ online = TRUE

\* one continuation of a running performSync
SyncStep(p) ==
  \/ SyncAuth(p)
  \/ SyncPush(p)
  \/ SyncCount(p)
  \/ SyncPullProducts(p)
  \/ SyncPutProducts(p)
  \/ SyncPullTxns(p)
  \/ SyncPutTxns(p)
  \/ SyncReconRead(p)
  \/ SyncReconSelect(p)
  \/ SyncReconLocal(p)
  \/ SyncReconCloud(p)

NextSales ==
  \/ \E cart \in OneLineCarts : CreateTransaction(1, cart)
  \/ CreateTransactionValidate(1)
  \/ CreateTransactionCommit(1)
  \/ \E sp \in SellPrices : UpdateProduct(1, [f \in {"sellingPrice"} |-> sp])
  \/ DeleteProduct(1)
  \/ ForcSync(1)
  \/ SyncStep(1)
  \/ SyncFail(1)

SpecSales == InitSales /\ [][NextSales]_vars

\* ------------------------------------ reconciliation of the product tables
\* the shop has two stocked products that the cloud does not hold yet
InitReconcile ==
  /\ InitApp
  /\ products = [id \in ProductIds |-> StockedProduct(MaxStock)]
  /\ remoteProducts = << >>
  /\ remoteTxns = [id \in {1} |-> OtherSale]
  /\ online = TRUE

NextReconcile ==
  \/ \E sp \in SellPrices : UpdateProduct(1, [f \in {"sellingPrice"} |-> sp])
  \/ \E id \in ProductIds : DeleteProduct(id)
  \/ Tick
  \/ ForcSync(1)
  \/ SyncStep(1)
  \/ SyncFail(1)

SpecReconcile == InitReconcile /\ [][NextReconcile]_vars

\* ------------------------------- the sync engine, its triggers and logout
\* the shop has one stocked product; the owner's cloud tables hold no
\* product and the sale of another device
Init ==
  /\ InitApp
  /\ products = [id \in {1} |-> StockedProduct(MaxStock)]
  /\ remoteProducts = << >>
  /\ remoteTxns = [id \in {1} |-> OtherSale]
  /\ online = TRUE

Next ==
  \/ \E p \in SyncIds : ForcSync(p)
  \/ \E p \in SyncIds : TimerTick(p)
  \/ \E p \in SyncIds : OnlineEvent(p)
  \/ OfflineEvent
  \/ \E p \in SyncIds : SessionEvent(p)
  \/ \E p \in SyncIds : Login(p)
  \/ LogoutStart
  \/ LogoutClear
  \/ LogoutSignOut
  \/ \E p \in SyncIds : SyncStep(p)
  \/ \E p \in SyncIds : SyncFail(p)

Spec == Init /\ [][Next]_vars

\* ------------------------------------- the sync engine as it is scheduled
\* a newly installed device: the local store is empty, the owner's cloud
\* tables hold one product and one sale
InitLive ==
  /\ InitApp
  /\ products = << >>
  /\ remoteProducts = [id \in {1} |-> CloudProduct(StockedProduct(MaxStock))]
  /\ remoteTxns = [id \in {1} |-> OtherSale]
  /\ online = TRUE

\* one cart of the product the cloud holds
LiveCarts ==
  {<<[productId |-> 1, sellingPrice |-> sp, costPrice |-> 1, quantity |-> 1]>> :
     sp \in LinePrices}

\* a checkout may hold the local store's lock while the sync runs
NextLive ==
  \/ \E cart \in LiveCarts : CreateTransaction(1, cart)
  \/ CreateTransactionValidate(1)
  \/ CreateTransactionCommit(1)
  \/ ForcSync(1)
  \/ Login(1)
  \/ LogoutStart
  \/ LogoutClear
  \/ LogoutSignOut
  \/ SyncStep(1)
  \/ SyncFail(1)

\* the event loop runs the continuation of every settled promise; a request
\* to the local store is served once the transaction ahead of it has
\* committed, and a checkout that holds the lock commits
Fairness ==
  /\ \A p \in SyncIds : SF_vars(SyncStep(p))
  /\ WF_vars(CreateTransactionCommit(1))

SpecLive == InitLive /\ [][NextLive]_vars /\ Fairness

\* ---------------------------- sales on a device that keeps synchronising
\* the device stays online and signed in, every remote call succeeds, and
\* the periodic timer keeps firing
NextPush ==
  \/ \E cart \in LiveCarts : CreateTransaction(1, cart)
  \/ CreateTransactionValidate(1)
  \/ CreateTransactionCommit(1)
  \/ SessionEvent(1)
  \/ TimerTick(1)
  \/ SyncStep(1)

FairnessPush ==
  /\ WF_vars(TimerTick(1))
  /\ SF_vars(SyncStep(1))
  /\ WF_vars(CreateTransactionCommit(1))

SpecPush == InitLive /\ [][NextPush]_vars /\ FairnessPush

\* ------------------------------- syncs that follow one another, no edits
\* the device is newly installed or holds one product the cloud holds too,
\* and another device of the owner has created a second product in the
\* cloud, active or soft-deleted
InitRepeat ==
  /\ InitApp
  /\ products \in {<< >>, [id \in {1} |-> StockedProduct(MaxStock)]}
  /\ \E active \in BOOLEAN :
        remoteProducts =
          [id \in ProductIds |->
             IF id = 1 THEN CloudProduct(StockedProduct(MaxStock))
             ELSE [CloudProduct(StockedProduct(MaxStock)) EXCEPT !.is_active = active]]
  /\ remoteTxns = [id \in {1} |-> OtherSale]
  /\ online = TRUE

\* nothing is sold or edited and every call of the sync succeeds
NextRepeat ==
  \/ Tick
  \/ ForcSync(1)
  \/ SyncStep(1)

SpecRepeat == InitRepeat /\ [][NextRepeat]_vars

\* ----------------------------------- a sale while the products reconcile
\* the device and the cloud hold the same record of one product
InitSelling ==
  /\ InitApp
  /\ products = [id \in {1} |-> StockedProduct(MaxStock)]
  /\ remoteProducts = [id \in {1} |-> CloudProduct(StockedProduct(MaxStock))]
  /\ remoteTxns = << >>
  /\ online = TRUE

\* the local store is never empty here, so no call runs the complete pull
NextSelling ==
  \/ \E cart \in LiveCarts : CreateTransaction(1, cart)
  \/ CreateTransactionValidate(1)
  \/ CreateTransactionCommit(1)
  \/ Tick
  \/ \E q \in 0..MaxStock : OtherDevicePush(1, q)
  \/ ForcSync(1)
  \/ SyncAuth(1)
  \/ SyncPush(1)
  \/ SyncCount(1)
  \/ SyncReconRead(1)
  \/ SyncReconSelect(1)
  \/ SyncReconLocal(1)
  \/ SyncReconCloud(1)

SpecSelling == InitSelling /\ [][NextSelling]_vars

\* ------------------------- subscriptions to the connectivity of the device
\* components subscribe and unsubscribe while the connection comes and goes
NextListeners ==
  \/ \E cb \in Callbacks : OnOnlineStatusChange(cb)
  \/ \E h \in 1..MaxSubs : Unsubscribe(h)
  \/ OnlineEvent(1)
  \/ OfflineEvent
  \/ SyncStep(1)
  \/ SyncFail(1)

SpecListeners == InitLive /\ [][NextListeners]_vars

\* ================================================================ claims
\* a line of the cart names a product the store does not hold or asks for
\* more than its stored quantity
HasBadLine(cart, prods) ==
  \E i \in 1..Len(cart) :
    \/ cart[i].productId \notin DOMAIN prods
    \/ cart[i].quantity > prods[cart[i].productId].quantity

\* the total quantity a cart asks of a product
RECURSIVE CartQuantity(_, _)
CartQuantity(cart, id) ==
  IF cart = << >> THEN 0
  ELSE (IF Head(cart).productId = id THEN Head(cart).quantity ELSE 0)
       + CartQuantity(Tail(cart), id)

\* the sum of price * quantity over the lines of a cart
RECURSIVE LineSum(_, _)
LineSum(cart, field) ==
  IF cart = << >> THEN 0
  ELSE Head(cart)[field] * Head(cart).quantity + LineSum(Tail(cart), field)

Validates(c) == calls[c].pc = "waiting" /\ calls'[c].pc # "waiting"
Commits(c) == calls[c].pc = "validated" /\ calls'[c].pc = "idle"

\* C1: a createTransaction whose cart has a missing or understocked line,
\* at any position, returns a failure and changes no product and no
\* transaction record.
C1_AllOrNothing ==
  [][\A c \in CallIds :
       (Validates(c) /\ HasBadLine(calls[c].cart, products))
         => /\ calls'[c].pc = "idle"
            /\ callResult'[c].success = FALSE
            /\ products' = products
            /\ transactions' = transactions]_vars

\* a call has failed on the second line of its cart, after a good first one
C1_Witness ==
  \E c \in CallIds :
    /\ ~callResult[c].success
    /\ callResult[c].error = "Insufficient inventory"
    /\ callResult[c].line = 2
    /\ transactions = << >>

\* C2: a createTransaction whose lines all ask for at most the stock of
\* their product succeeds, and afterwards every product's quantity is its
\* quantity before the call minus the total quantity the cart asks of it.
C2_ExactDeduction ==
  [][\A c \in CallIds :
       /\ (Validates(c) /\ ~HasBadLine(calls[c].cart, products))
            => calls'[c].pc = "validated"
       /\ Commits(c)
            => /\ callResult'[c].success
               /\ DOMAIN products' = DOMAIN products
               /\ \A id \in DOMAIN products :
                    products'[id].quantity =
                      products[id].quantity - CartQuantity(calls[c].cart, id)]_vars

\* C3: the transaction a successful createTransaction stores is unsynced,
\* its items are the cart lines and its totals are the sums over the cart
\* lines' own prices, whatever prices the products carry.
C3_SnapshotTotals ==
  [][\A c \in CallIds :
       Commits(c) =>
         LET cart == calls[c].cart
             id == callResult'[c].txId
         IN /\ callResult'[c].success
            /\ id \notin DOMAIN transactions
            /\ id \in DOMAIN transactions'
            /\ transactions'[id].synced = FALSE
            /\ transactions'[id].items = cart
            /\ transactions'[id].total = LineSum(cart, "sellingPrice")
            /\ transactions'[id].totalCost = LineSum(cart, "costPrice")
            /\ transactions'[id].profit =
                 LineSum(cart, "sellingPrice") - LineSum(cart, "costPrice")]_vars

\* a stored two-line sale of a product whose stored price is not the line's
C3_Witness ==
  \E id \in DOMAIN transactions :
    /\ Len(transactions[id].items) = 2
    /\ transactions[id].items[1].quantity = 2
    /\ \E p \in DOMAIN products :
         /\ p = transactions[id].items[1].productId
         /\ products[p].sellingPrice # transactions[id].items[1].sellingPrice

\* the quantity of a product sold by the stored transactions
RECURSIVE SoldQuantity(_, _, _)
SoldQuantity(txns, ids, id) ==
  IF ids = {} THEN 0
  ELSE LET t == CHOOSE x \in ids : TRUE
       IN CartQuantity(txns[t].items, id) + SoldQuantity(txns, ids \ {t}, id)

\* C4: checkouts of one product started concurrently leave the stock at the
\* initial stock minus the quantities of the calls that succeeded, never
\* below zero, and a call commits only while the stock it validated is
\* still there.
C4_NoOverselling ==
  /\ \A id \in DOMAIN products :
       /\ products[id].quantity >= 0
       /\ products[id].quantity =
            MaxStock - SoldQuantity(transactions, DOMAIN transactions, id)
  /\ \A c \in CallIds :
       calls[c].pc = "validated" => ~HasBadLine(calls[c].cart, products)

\* one call has sold, a second holds the lock and a third party waits
C4_Witness ==
  /\ transactions # << >>
  /\ \E c, d \in CallIds :
       /\ calls[c].pc = "validated"
       /\ calls[d].pc = "waiting"
       /\ HasBadLine(calls[d].cart, ApplyUpdates(products, calls[c].updates, 1, now))

\* C5: every product in the local store has a quantity of at least zero in
\* every reachable state.
C5_QuantityNonNegative ==
  \A id \in DOMAIN products : products[id].quantity >= 0

\* the prices and totals of a stored transaction
Priced(t) ==
  [items |-> [i \in DOMAIN t.items |->
                [sellingPrice |-> t.items[i].sellingPrice,
                 costPrice |-> t.items[i].costPrice]],
   total |-> t.total, totalCost |-> t.totalCost, profit |-> t.profit]

C7_SyncedMonotone ==
  [][/\ \A c \in CallIds :
          Commits(c) => transactions'[callResult'[c].txId].synced = FALSE
     /\ \A id \in DOMAIN transactions \cap DOMAIN transactions' :
          transactions[id].synced = TRUE => transactions'[id].synced = TRUE]_vars

\* a transaction is stored as synced after a second complete pull has put
\* it again
C7_Witness ==
  /\ \E id \in DOMAIN transactions : transactions[id].synced = TRUE
  /\ syncResult.success
  /\ syncResult.pulledTransactions = 1
  /\ syncs[1].pc = "reconRead"
  /\ syncs[1].pulledTransactions = 1

\* the performSync calls past the in-progress guard
Running == {p \in SyncIds : syncs[p].pc # "idle"}

\* C8: single flight: at most one performSync call is past the in-progress
\* guard in every reachable state.
C8_SingleFlight == Cardinality(Running) <= 1

\* a step in which performSync is invoked in the slot p
Invoked(p) ==
  /\ syncs[p].pc = "idle"
  /\ \/ syncs'[p].pc # "idle"
     \/ syncResult' # syncResult /\ syncResult'.call = p

\* C9: a performSync invoked while another call is in progress returns the
\* failure 'Sync already in progress', touches neither store, leaves the
\* in-progress flag set and starts nothing; and the return of a call starts
\* no other call.
C9_RejectedNotQueued ==
  [][\A p \in SyncIds :
       /\ (Invoked(p) /\ Running \ {p} # {})
            => /\ syncResult'.call = p
               /\ syncResult'.success = FALSE
               /\ syncResult'.error = "Sync already in progress"
               /\ syncs' = syncs
               /\ syncInProgress' = TRUE
               /\ localVars' = localVars
               /\ remoteVars' = remoteVars
       /\ (syncs[p].pc # "idle" /\ syncs'[p].pc = "idle")
            => \A q \in SyncIds : syncs[q].pc = "idle" => syncs'[q].pc = "idle"]_vars

\* C10: every performSync call past the in-progress guard eventually ends;
\* it ends with a result value and the in-progress flag cleared, on success
\* and on every failure, and a trigger that then arrives online is accepted.
C10_SyncTerminates ==
  /\ [][\A p \in SyncIds :
          /\ (syncs[p].pc # "idle" /\ syncs'[p].pc = "idle")
               => /\ syncResult'.call = p
                  /\ syncResult'.success \/ syncResult'.error # ""
                  /\ syncInProgress' = FALSE
          /\ (Invoked(p) /\ online' /\ ~syncInProgress)
               => syncs'[p].pc = "auth"]_vars
  /\ \A p \in SyncIds : (syncs[p].pc # "idle") ~> (syncs[p].pc = "idle")

\* a call has ended for want of a user, and after the next login a trigger
\* has been accepted
C10_Witness ==
  /\ syncResult.call = 1
  /\ syncResult.error = "User not authenticated"
  /\ syncs[1].pc = "auth"
  /\ user = "owner"

\* C11: a performSync call whose getUser gives no user returns a failure
\* with all counts zero and runs no further step: neither store and no
\* last-sync time changes.
C11_NoUserAborts ==
  [][\A p \in SyncIds :
       (syncs[p].pc = "auth" /\ user = "none" /\ syncs'[p] # syncs[p])
         => /\ syncs'[p].pc = "idle"
            /\ syncResult'.call = p
            /\ syncResult'.success = FALSE
            /\ syncResult'.error # ""
            /\ syncResult'.syncedTransactions = 0
            /\ syncResult'.syncedProducts = 0
            /\ syncResult'.pulledTransactions = 0
            /\ syncResult'.pulledProducts = 0
            /\ localVars' = localVars
            /\ remoteVars' = remoteVars
            /\ lastSyncTime' = lastSyncTime]_vars

\* a call has ended for want of a user and the engine is idle, signed out
C11_Witness ==
  /\ syncResult.call = 1
  /\ syncResult.error = "User not authenticated"
  /\ syncs[1].pc = "idle"
  /\ user = "none"

\* the stored transactions whose synced flag is false
Unsynced(txns) == {id \in DOMAIN txns : txns[id].synced = FALSE}

\* a step in which the push of the call p ends, with the call going on
Pushes(p) == syncs[p].pc = "push" /\ syncs'[p].pc = "count"

C14_PushCountsUnsynced ==
  [][\A p \in SyncIds :
       Pushes(p) =>
         /\ syncs'[p].syncedTransactions = Cardinality(Unsynced(transactions))
         /\ Unsynced(transactions') = {}
         /\ Unsynced(transactions) = {} => remoteTxns' = remoteTxns]_vars

C16_PulledStoredSynced ==
  [][\A p \in SyncIds :
       (syncs[p].pc = "putTxns" /\ syncs'[p].pc = "reconRead")
         => \A id \in DOMAIN syncs[p].fetched :
              /\ id \in DOMAIN transactions'
              /\ transactions'[id].synced = TRUE]_vars

\* C17: the push step is followed by the complete pull exactly when the
\* local product table holds no record.
C17_FullPullIffEmpty ==
  [][\A p \in SyncIds :
       (syncs[p].pc = "count" /\ syncs'[p].pc \notin {"count", "idle"})
         => (syncs'[p].pc = "pullProducts" <=> DOMAIN products = {})]_vars

\* the product the reconciliation of the call p writes or skips in its next
\* step, 0 if that step handles none
Reconciled(p) ==
  IF syncs[p].pc \in {"reconLocal", "reconCloud"} /\ syncs[p].todo # {}
  THEN SetMin(syncs[p].todo) ELSE 0

\* the tables are as the call p read them for the product id
Unedited(p, id) ==
  /\ id \in DOMAIN syncs[p].localProducts
       => id \in DOMAIN products /\ products[id] = syncs[p].localProducts[id]
  /\ id \in DOMAIN syncs[p].cloudProducts
       <=> id \in DOMAIN remoteProducts
  /\ id \in DOMAIN remoteProducts
       => remoteProducts[id] = syncs[p].cloudProducts[id]

\* a step of the reconciliation of p about the product id
Reconciles(p, id) ==
  /\ id # 0
  /\ Reconciled(p) = id
  /\ Unedited(p, id)
  /\ syncs'[p] # syncs[p]
  /\ syncs'[p].pc # "idle"

\* C18: last writer wins: for a product stored in both tables the
\* reconciliation copies the record with the larger updatedAt over the other
\* and leaves the newer one as it is; with equal timestamps it writes
\* neither.
C18_LastWriterWins ==
  [][\A p \in SyncIds : \A id \in DOMAIN products \cap DOMAIN remoteProducts :
       Reconciles(p, id) =>
         LET l == products[id]
             r == remoteProducts[id]
         IN /\ l.updatedAt > r.updated_at
                 => /\ remoteProducts'[id] = CloudProduct(l)
                    /\ products' = products
            /\ r.updated_at > l.updatedAt
                 => /\ products'[id] = LocalProduct(r)
                    /\ remoteProducts' = remoteProducts
            /\ r.updated_at = l.updatedAt
                 => /\ products' = products
                    /\ remoteProducts' = remoteProducts]_vars

\* C19: the reconciliation creates the cloud record of a product stored
\* only locally from the local one and the local record of a product
\* stored only in the cloud from the cloud one, and when performSync
\* returns success both tables hold the same product ids.
C19_BothSidesCreated ==
  [][\A p \in SyncIds :
       /\ \A id \in DOMAIN products \ DOMAIN remoteProducts :
            Reconciles(p, id)
              => /\ id \in DOMAIN remoteProducts'
                 /\ remoteProducts'[id] = CloudProduct(products[id])
                 /\ products' = products
       /\ \A id \in DOMAIN remoteProducts \ DOMAIN products :
            Reconciles(p, id)
              => /\ id \in DOMAIN products'
                 /\ products'[id] = LocalProduct(remoteProducts[id])
                 /\ remoteProducts' = remoteProducts
       /\ (syncs[p].pc = "reconCloud" /\ syncs'[p].pc = "idle"
             /\ syncResult'.success /\ Unedited(p, 1) /\ Unedited(p, 2))
            => DOMAIN products' = DOMAIN remoteProducts']_vars

\* C20: eventual push: on a device that stays online and signed in, with
\* remote calls that succeed and a timer that keeps firing, the transaction
\* of every successful createTransaction is eventually in the cloud and
\* synced locally.
C20_EventuallyPushed ==
  \A id \in 1..MaxTx :
    (\E c \in CallIds : callResult[c].success /\ callResult[c].txId = id)
      ~> /\ id \in DOMAIN transactions \cap DOMAIN remoteTxns
         /\ transactions[id].synced = TRUE
         /\ remoteTxns[id] = CloudTransaction(transactions[id])

\* C21: a call that has validated its cart and written the sale returns
\* success with the transaction stored and the stock deducted, also when the
\* receipt generation that follows the writes fails.
C21_ReceiptFailureKeepsSale ==
  [][\A c \in CallIds :
       Commits(c) =>
         /\ callResult'[c].success
         /\ callResult'[c].txId \in DOMAIN transactions' \ DOMAIN transactions
         /\ products' = ApplyUpdates(products, calls[c].updates, 1, now)]_vars

\* C22: once a logout has completed and until the next login the local
\* store holds no product and no transaction, whatever a performSync that
\* was running when logout was called does afterwards.
C22_EmptyAfterLogout ==
  (user = "none" /\ logoutPc = "idle")
    => /\ products = << >>
       /\ transactions = << >>

\* how many entries of a sequence of callbacks are the callback cb
Count(arr, cb) == Cardinality({i \in DOMAIN arr : arr[i] = cb})

\* how many subscriptions of cb have an unsubscribe function not yet called
Live(cb) ==
  Cardinality({h \in DOMAIN unsubscribes :
                 unsubscribes[h].callback = cb /\ ~unsubscribes[h].called})

\* C23: after any subscriptions and calls of unsubscribe functions the
\* registered listeners are exactly the subscriptions whose own unsubscribe
\* function has not been called, and a change of connectivity invokes
\* exactly those.
C23_ListenersAreLiveSubscriptions ==
  [][\A cb \in Callbacks :
       /\ Count(onlineStatusListeners', cb) = Live(cb)'
       /\ online' # online => Count(notified', cb) = Live(cb)]_vars

\* the sale a stored transaction records: its items and totals
Sale(t) == [items |-> t.items, total |-> t.total, totalCost |-> t.totalCost,
            profit |-> t.profit]

BeforePushEnd(p) == syncs[p].pc \in {"auth", "push"}

\* a step of the running call p
SyncSteps(p) == syncs[p].pc # "idle" /\ syncs'[p] # syncs[p]

\* C25: within one performSync call the push of the transactions comes
\* first: until the push step has ended the call reads no cloud product
\* and writes no product in either store, the call goes on to the product
\* steps only from the end of a push that left every transaction it read
\* in the cloud and marked, and a call whose push fails ends there.
C25_PushBeforeReconcile ==
  [][\A p \in SyncIds :
       /\ (SyncSteps(p) /\ BeforePushEnd(p))
            => /\ products' = products
               /\ remoteProducts' = remoteProducts
               /\ syncs'[p].fetched = syncs[p].fetched
               /\ syncs'[p].cloudProducts = syncs[p].cloudProducts
               /\ syncs'[p].localProducts = syncs[p].localProducts
               /\ syncs'[p].pc \in {"auth", "push", "count", "idle"}
       /\ (syncs[p].pc \in {"idle", "auth"} /\ syncs'[p].pc # syncs[p].pc)
            => syncs'[p].pc \in {"auth", "push", "idle"}
       /\ Pushes(p)
            => \A id \in GetUnsyncedTransactions(transactions) :
                 /\ id \in DOMAIN remoteTxns'
                 /\ transactions'[id].synced = TRUE]_vars

\* a call whose push step has ended has pulled the products of the cloud
\* and is reconciling
C25_Witness ==
  /\ syncs[1].pc = "reconLocal"
  /\ syncs[1].pulledProducts = 1
  /\ products # << >>

\* the call p is in the complete pull
Pulling(p) == syncs[p].pc \in {"pullProducts", "putProducts", "pullTxns", "putTxns"}

\* the active products of the cloud as the local store would hold them
ActiveRemote ==
  [id \in {x \in DOMAIN remoteProducts : remoteProducts[x].is_active = TRUE} |->
     LocalProduct(remoteProducts[id])]

\* C26: a performSync call that runs the complete pull does not run the
\* reconciliation of the products: it ends after the pull, it writes
\* nothing to the cloud's product table, and when it returns success into a
\* store that was empty the local store holds no product but active
\* products of the cloud.
C26_PullOrReconcile ==
  [][\A p \in SyncIds :
       /\ (Pulling(p) /\ syncs'[p].pc # syncs[p].pc)
            => syncs'[p].pc \in {"putProducts", "pullTxns", "putTxns", "idle"}
       /\ (SyncSteps(p) /\ syncs[p].pulledTransactions + syncs[p].pulledProducts > 0)
            => remoteProducts' = remoteProducts
       /\ (SyncSteps(p) /\ syncs'[p].pc = "idle" /\ syncResult'.success
              /\ syncResult'.pulledProducts > 0)
            => DOMAIN products' \subseteq DOMAIN ActiveRemote]_vars

\* a step in which the call p returns
Returns(p) == syncs[p].pc # "idle" /\ syncs'[p].pc = "idle"

\* C27: the result a performSync call returns carries the counts of what
\* the call has done: the transactions it marked synced, the records its
\* complete pull wrote and the products its reconciliation pushed or
\* pulled, also when the call returns a failure after some of its steps.
C27_ResultCountsAccurate ==
  [][\A p \in SyncIds :
       Returns(p) =>
         /\ syncResult'.call = p
         /\ syncResult'.syncedTransactions = syncs[p].syncedTransactions
         /\ syncResult'.pulledProducts = syncs[p].pulledProducts
         /\ syncResult'.pulledTransactions = syncs[p].pulledTransactions
         /\ syncResult'.syncedProducts = syncs[p].syncedProducts]_vars

\* C28: the sync reaches a fixed point: when a performSync has succeeded
\* and nothing has been edited or sold since, the next performSync changes
\* no product record in either store and returns syncedProducts = 0.
C28_FixedPoint ==
  [][\A p \in SyncIds :
       (SyncSteps(p) /\ lastSyncTime # -1)
         => /\ products' = products
            /\ remoteProducts' = remoteProducts
            /\ (Returns(p) /\ syncResult'.success)
                 => syncResult'.syncedProducts = 0]_vars

\* C29: a sale committed during a sync is not undone: when the
\* reconciliation handles a product that a checkout has written since the
\* reconciliation read the local products, the local quantity stays the
\* one the sale left, unless the cloud record is newer than the record the
\* sale left.
C29_SaleNotUndone ==
  [][\A p \in SyncIds : \A id \in DOMAIN products :
       (/\ SyncSteps(p)
        /\ Reconciled(p) = id
        /\ id \in DOMAIN syncs[p].localProducts
        /\ products[id].quantity < syncs[p].localProducts[id].quantity
        /\ ~(/\ id \in DOMAIN remoteProducts
             /\ remoteProducts[id].updated_at > products[id].updatedAt))
         => /\ id \in DOMAIN products'
            /\ products'[id].quantity = products[id].quantity]_vars

\* C30: no step of a createTransaction call, whatever the quantities of
\* its cart lines and whether it succeeds or fails, leaves a product with a
\* larger quantity than it had.
C30_StockNeverGrows ==
  [][\A c \in CallIds :
       calls'[c] # calls[c]
         => \A id \in DOMAIN products :
              /\ id \in DOMAIN products'
              /\ products'[id].quantity <= products[id].quantity]_vars
====
